---- MODULE Spec2Model ----
(***************************************************************************)
(* Model of the spg-experiments repository:                                *)
(*   src/environments/rl.py   scenes EndgoalRoomCue and DispenserEnv        *)
(*   src/wrappers/gym_env.py  the gym adapter PlaygroundEnv                 *)
(* The playground engine (simple_playgrounds) is an external library; the  *)
(* few engine calls the scenes and the adapter make are modelled by their  *)
(* documented effect and are marked as such where they are defined.        *)
(***************************************************************************)
EXTENDS Integers, Sequences, FiniteSets, TLC

VARIABLES
    \* EndgoalRoomCue
    scene_elements,       \* the playground's entities, each with the id of its object
    goal,                 \* self.goal: id of the GoalZone object, or None
    cue,                  \* self.cue: id of the cue object, or None
    next_id,              \* id the next constructed entity object gets
    cue_call,             \* the method of EndgoalRoomCue that returned last
    \* DispenserEnv
    agent_starting_area,  \* self.agent_starting_area
    area_prod,            \* self.area_prod
    area_disp,            \* self.area_disp
    disp_elements,        \* the playground's entities (the dispenser)
    agents,               \* self.agents: agent name -> agent.initial_position
    disp_call,            \* the method of DispenserEnv that returned last
    \* PlaygroundEnv
    actions,                  \* agent.get_all_available_actions(): the actuator descriptors
    sensors,                  \* agent.sensors, each with its flags and current value
    continuous_action_space,  \* self.continuous_action_space
    multisteps,               \* self.multisteps
    actions_dict,             \* self.actions_dict: body part -> action -> command
    action_space,             \* self.action_space
    observation_space,        \* shape of self.observation_space: <<height, width, channels>>
    observations,             \* self.observations, the shared buffer
    game,                     \* self.game, the engine
    constructed,              \* __init__ returned without raising
    ret                       \* what the last call of the adapter returned or raised

cue_vars == <<scene_elements, goal, cue, next_id, cue_call>>
disp_vars == <<agent_starting_area, area_prod, area_disp, disp_elements, agents, disp_call>>
env_vars == <<actions, sensors, continuous_action_space, multisteps, actions_dict, action_space,
              observation_space, observations, game, constructed, ret>>
vars == <<scene_elements, goal, cue, next_id, cue_call,
          agent_starting_area, area_prod, area_disp, disp_elements, agents, disp_call,
          actions, sensors, continuous_action_space, multisteps, actions_dict, action_space,
          observation_space, observations, game, constructed, ret>>

\* Python's None for an optional value; Some(x) for a value that is there.
None == <<>>
Some(x) == <<x>>

\* No method has returned yet: the object is not constructed.
NoCall == "none"

(***************************************************************************)
(* EndgoalRoomCue (src/environments/rl.py, lines 10-74)                    *)
(***************************************************************************)

\* Bound: calls of set_goal()/reset() made on the scene after its construction.
MaxCalls == 3

\* Entities one set_goal() call constructs: the cue, the goal, three decoys.
EntitiesPerCall == 5

goal_locations == << <<20, 20, 0>>, <<180, 20, 0>>, <<180, 180, 0>>, <<20, 180, 0>> >>
cue_colors == << <<50, 50, 50>>, <<50, 250, 50>>, <<250, 50, 50>>, <<50, 50, 250>> >>

CueLocation == <<100, 100, 0>>

NoTexture == <<>>

Entity(id, cls, pos, reward, texture, temp) ==
    [id |-> id, cls |-> cls, pos |-> pos, reward |-> reward,
     texture |-> texture, is_temporary_entity |-> temp]

\* The four obstacles of __init__ (angles in hundredths of a radian).
Obstacles ==
    { Entity(0, "Basic", <<60, 30, 34>>, 0, NoTexture, FALSE),
      Entity(1, "Basic", <<130, 150, 170>>, 0, NoTexture, FALSE),
      Entity(2, "Basic", <<40, 140, 40>>, 0, NoTexture, FALSE),
      Entity(3, "Basic", <<160, 60, 0>>, 0, <<150, 200, 200>>, FALSE) }

\* Engine: Playground.add_scene_element puts the object in the scene.
add_scene_element(scene, e) == scene \cup {e}

\* Engine: Playground.remove_scene_element takes the object out of the scene;
\* an object the scene no longer holds (discarded by a reset) leaves it as it is.
remove_scene_element(scene, ref) == {e \in scene : e.id # ref}

\* Engine: Playground.reset discards the entities flagged temporary and puts
\* the others back.
PlaygroundReset(scene) == {e \in scene : ~e.is_temporary_entity}

\* random.randint(0, 3)
GoalIndices == 0..3

DecoyIndicesAll(index_goal) == 0..3

\* for i in range(4): if i != index_goal
DecoyIndices(index_goal) == {i \in 0..3 : i # index_goal}

\* if self.goal is not None: remove the goal and the cue
RemovePrevious(scene, g, c) ==
    IF g # None
    THEN remove_scene_element(remove_scene_element(scene, g[1]), c[1])
    ELSE scene

\* The decoys set_goal() adds: one DeathZone per index other than the goal's,
\* constructed in increasing order of index.
Decoys(index_goal, first_id) ==
    LET idx == DecoyIndices(index_goal)
        rank(i) == Cardinality({j \in idx : j < i})
    IN { Entity(first_id + rank(i), "DeathZone", goal_locations[i + 1], -5, NoTexture, TRUE)
         : i \in idx }

\* set_goal(): the scene, self.goal, self.cue and the next object id after it.
set_goal(scene, g, c, nid, index_goal) ==
    LET loc == goal_locations[index_goal + 1]
        col == cue_colors[index_goal + 1]
        s0 == RemovePrevious(scene, g, c)
        s1 == add_scene_element(s0, Entity(nid, "Basic", CueLocation, 0, col, TRUE))
        s2 == add_scene_element(s1, Entity(nid + 1, "GoalZone", loc, 10, NoTexture, TRUE))
        s3 == s2 \cup Decoys(index_goal, nid + 2)
    IN [scene |-> s3, goal |-> Some(nid + 1), cue |-> Some(nid), next_id |-> nid + EntitiesPerCall]

\* EndgoalRoomCue.__init__: obstacles, self.goal = self.cue = None, set_goal().
CueConstruct ==
    \E index_goal \in GoalIndices :
        LET r == set_goal(Obstacles, None, None, Cardinality(Obstacles), index_goal)
        IN /\ scene_elements = r.scene
           /\ goal = r.goal
           /\ cue = r.cue
           /\ next_id = r.next_id
           /\ cue_call = "__init__"

CueNotConstructed ==
    /\ scene_elements = {}
    /\ goal = None
    /\ cue = None
    /\ next_id = 0
    /\ cue_call = NoCall

CueCallsLeft ==
    next_id + EntitiesPerCall <= Cardinality(Obstacles) + EntitiesPerCall * (MaxCalls + 1)

\* A direct call of set_goal() on the constructed scene.
CueSetGoal ==
    /\ cue_call # NoCall
    /\ CueCallsLeft
    /\ \E index_goal \in GoalIndices :
        LET r == set_goal(scene_elements, goal, cue, next_id, index_goal)
        IN /\ scene_elements' = r.scene
           /\ goal' = r.goal
           /\ cue' = r.cue
           /\ next_id' = r.next_id
    /\ cue_call' = "set_goal"
    /\ UNCHANGED <<disp_vars, env_vars>>

\* EndgoalRoomCue.reset(): super().reset(), then set_goal().
CueReset ==
    /\ cue_call # NoCall
    /\ CueCallsLeft
    /\ \E index_goal \in GoalIndices :
        LET r == set_goal(PlaygroundReset(scene_elements), goal, cue, next_id, index_goal)
        IN /\ scene_elements' = r.scene
           /\ goal' = r.goal
           /\ cue' = r.cue
           /\ next_id' = r.next_id
    /\ cue_call' = "reset"
    /\ UNCHANGED <<disp_vars, env_vars>>

(***************************************************************************)
(* DispenserEnv (src/environments/rl.py, lines 94-137)                     *)
(***************************************************************************)

\* Bound: agents that can be added to the playground.
MaxAgents == 2

AgentNames == 1..MaxAgents

\* n_rooms = (3, 2)
RoomsX == 3
RoomsY == 2

\* size = (300, 200)
SizeX == 300
SizeY == 200

RoomCoordinates == (0..(RoomsX - 1)) \X (0..(RoomsY - 1))

\* Engine: ConnectedRooms2D.area_rooms, room coordinate -> (center, shape);
\* the rooms tile the playground.
area_rooms ==
    [rc \in RoomCoordinates |->
        LET w == SizeX \div RoomsX
            h == SizeY \div RoomsY
        IN << <<rc[1] * w + w \div 2, rc[2] * h + h \div 2>>, <<w, h>> >>]

\* Engine: PositionAreaSampler(center, area_shape='rectangle', width_length)
PositionAreaSampler(center, width_length) ==
    [center |-> center, area_shape |-> "rectangle", width_length |-> width_length]

RECURSIVE Orders(_)
\* all the orders of the elements of S, as sequences
Orders(S) ==
    IF S = {} THEN {<<>>}
    ELSE UNION { {Append(o, x) : o \in Orders(S \ {x})} : x \in S }

\* random.shuffle(list_room_coordinates): every order of the six rooms
Shuffles == Orders(RoomCoordinates)

PopKeep(list) == [value |-> list[Len(list)], rest |-> list]

\* list.pop(): the last element, and the list without it
Pop(list) == [value |-> list[Len(list)], rest |-> SubSeq(list, 1, Len(list) - 1)]

\* assign_areas() for one outcome of the shuffle
assign_areas(list_room_coordinates) ==
    LET p1 == Pop(list_room_coordinates)
        p2 == Pop(p1.rest)
        p3 == Pop(p2.rest)
        start == area_rooms[p1.value]
        disp == area_rooms[p2.value]
        prod == area_rooms[p3.value]
    IN [agent_starting_area |-> PositionAreaSampler(start[1], start[2]),
        area_prod |-> PositionAreaSampler(prod[1], prod[2]),
        area_disp |-> PositionAreaSampler(disp[1], disp[2])]

\* place_scene_elements(): the scene with a Dispenser over the current areas
place_scene_elements(scene, disp, prod) ==
    scene \cup { [cls |-> "Dispenser", area |-> disp, production_area |-> prod,
                  is_temporary_entity |-> TRUE] }

AgentsAssignedBefore(ags, old_start, new_start) == [a \in DOMAIN ags |-> old_start]

\* for agent in self.agents: agent.initial_position = self.agent_starting_area
\* (run after assign_areas(), so with the area this reset chose)
AgentsAssigned(ags, old_start, new_start) == [a \in DOMAIN ags |-> new_start]

\* DispenserEnv.__init__
DispConstruct ==
    \E order \in Shuffles :
        LET a == assign_areas(order)
        IN /\ agent_starting_area = Some(a.agent_starting_area)
           /\ area_prod = Some(a.area_prod)
           /\ area_disp = Some(a.area_disp)
           /\ disp_elements = place_scene_elements({}, a.area_disp, a.area_prod)
           /\ agents = << >>
           /\ disp_call = "__init__"

DispNotConstructed ==
    /\ agent_starting_area = None
    /\ area_prod = None
    /\ area_disp = None
    /\ disp_elements = {}
    /\ agents = << >>
    /\ disp_call = NoCall

\* DispenserEnv.reset()
DispReset ==
    /\ disp_call # NoCall
    /\ \E order \in Shuffles :
       \E a \in {assign_areas(order)} :
           /\ agent_starting_area' = Some(a.agent_starting_area)
           /\ area_prod' = Some(a.area_prod)
           /\ area_disp' = Some(a.area_disp)
           /\ agents' = AgentsAssigned(agents, agent_starting_area[1], a.agent_starting_area)
           /\ disp_elements' =
                place_scene_elements(PlaygroundReset(disp_elements), a.area_disp, a.area_prod)
    /\ disp_call' = "reset"
    /\ UNCHANGED <<cue_vars, env_vars>>

\* Positions a caller may have given an agent before adding it: none, or a
\* fixed area of its own.
OwnPosition == PositionAreaSampler(<<0, 0>>, <<10, 10>>)

\* Engine: Playground.add_agent (called by make_vector_env's _init): an agent
\* without an initial position gets the playground's starting area.
DispAddAgent ==
    /\ disp_call # NoCall
    /\ \E a \in AgentNames \ DOMAIN agents :
       \E given \in {None, Some(OwnPosition)} :
           agents' = [x \in DOMAIN agents \cup {a} |->
                        IF x # a THEN agents[x]
                        ELSE IF given = None THEN agent_starting_area[1] ELSE given[1]]
    /\ disp_call' = "add_agent"
    /\ UNCHANGED <<agent_starting_area, area_prod, area_disp, disp_elements, cue_vars, env_vars>>

(***************************************************************************)
(* PlaygroundEnv (src/wrappers/gym_env.py)                                 *)
(***************************************************************************)

\* Bound: actuator descriptors of the agent.
MaxActions == 2

\* Bound: sensors of the agent.
MaxSensors == 2

\* Bound: engine ticks in an episode (the playground's time_limit, scaled down).
TimeLimit == 2

\* The third dimension of the observation tensor.
Channels == 3

Max(a, b) == IF a >= b THEN a ELSE b

\* All sequences over S of length at most n.
SeqsUpTo(S, n) == UNION { [1..k -> S] : k \in 0..n }

\* All sequences over S of length at most n without a repeated element.
DistinctSeqsUpTo(S, n) ==
    { q \in SeqsUpTo(S, n) : \A i, j \in 1..Len(q) : i # j => q[i] # q[j] }

\* Actuator descriptors an agent can enumerate (body_part, action, action_type, min, max).
Action(body_part, action, action_type, min, max) ==
    [body_part |-> body_part, action |-> action, action_type |-> action_type,
     min |-> min, max |-> max]

ActionDescriptors ==
    { Action("base", "longitudinal_force", "CONTINUOUS_CENTERED", -1, 1),
      Action("base", "grasp", "DISCRETE", 0, 1),
      Action("head", "activate", "CONTINUOUS_NOT_CENTERED", 0, 2) }

\* Sensors an agent can carry: the modality and the declared shape
\* (an int, or a tuple of two or three ints).
Shape(is_int, dims) == [is_int |-> is_int, dims |-> dims]

Sensor(modality, shape) ==
    [sensor_modality |-> modality, shape |-> shape, normalize |-> FALSE, sensor_value |-> 0]

SensorKinds ==
    { Sensor("GEOMETRIC", Shape(TRUE, <<2>>)),
      Sensor("VISUAL", Shape(FALSE, <<3, 3>>)),
      Sensor("VISUAL", Shape(FALSE, <<2, 2, 3>>)),
      Sensor("SEMANTIC", Shape(TRUE, <<2>>)) }

\* Values a normalized sensor can read (every cell of its output the same).
SensorValues == {0, 1}

\* Entries of the action vectors given to step(): the two ends of the index
\* range {0, 1, 2}, one below and one above the 0.5 threshold of line 112.
ActionValues == {0, 2}

\* ---- construction: the action space (lines 29-62) ----

LowsSwapped(acts) == [i \in 1..Len(acts) |-> acts[i].max]

\* lows.append(action.min) for each action
Lows(acts) == [i \in 1..Len(acts) |-> acts[i].min]

\* highs.append(action.max) for each action
Highs(acts) == [i \in 1..Len(acts) |-> acts[i].max]

DimAlwaysTwo(action_type) == 2

\* the cardinality appended to dims for one action (lines 55-60)
Dim(action_type) ==
    CASE action_type = "DISCRETE" -> 2
      [] action_type = "CONTINUOUS_CENTERED" -> 3
      [] action_type = "CONTINUOUS_NOT_CENTERED" -> 2

\* dict[key] = value
SetItem(d, key, value) ==
    [k \in DOMAIN d \cup {key} |-> IF k = key THEN value ELSE d[k]]

RECURSIVE InitActionsDict(_, _, _)
\* lines 42-46: actions_dict[body_part][action] = 0, for each action in turn
InitActionsDict(acts, i, d) ==
    IF i > Len(acts) THEN d
    ELSE LET a == acts[i]
             d1 == IF a.body_part \notin DOMAIN d THEN SetItem(d, a.body_part, << >>) ELSE d
             d2 == IF a.action \notin DOMAIN d1[a.body_part]
                   THEN SetItem(d1, a.body_part, SetItem(d1[a.body_part], a.action, 0))
                   ELSE d1
         IN InitActionsDict(acts, i + 1, d2)

\* self.actions_dict after the action-space branch: filled in continuous mode only
BuildActionsDict(acts, continuous) ==
    IF continuous THEN InitActionsDict(acts, 1, << >>) ELSE << >>

\* self.action_space
BuildActionSpace(acts, continuous) ==
    IF continuous
    THEN [kind |-> "Box", low |-> Lows(acts), high |-> Highs(acts), nvec |-> << >>]
    ELSE [kind |-> "MultiDiscrete", low |-> << >>, high |-> << >>,
          nvec |-> [i \in 1..Len(acts) |-> Dim(acts[i].action_type)]]

\* ---- construction: the observation space (lines 67-87) ----

IsSemanticNever(sensor) == FALSE

\* sensor.sensor_modality is SensorModality.SEMANTIC
IsSemantic(sensor) == sensor.sensor_modality = "SEMANTIC"

\* what one sensor adds to width_all_sensors (lines 75, 79, 83): shape or shape[0]
InitWidth(shape) == shape.dims[1]

\* what one sensor adds to height_all_sensors (lines 76, 80, 84)
InitRows(shape) ==
    IF shape.is_int THEN 1
    ELSE IF Len(shape.dims) = 2 THEN 1
    ELSE shape.dims[2]

RECURSIVE ScanSensors(_, _, _)
\* the loop of lines 68-84 from sensor i on; it stops at the first semantic sensor
ScanSensors(ss, i, acc) ==
    IF i > Len(ss) THEN acc
    ELSE IF IsSemantic(ss[i]) THEN [acc EXCEPT !.error = Some("ValueError")]
    ELSE ScanSensors(ss, i + 1,
            [sensors |-> [acc.sensors EXCEPT ![i].normalize = TRUE],
             width |-> Max(acc.width, InitWidth(ss[i].shape)),
             height |-> acc.height + InitRows(ss[i].shape),
             error |-> None])

\* numpy.zeros((height, width, 3)): cell (row, column) -> its three channels
Zeros(shape) ==
    [cell \in (0..(shape[1] - 1)) \X (0..(shape[2] - 1)) |-> [ch \in 1..shape[3] |-> 0]]

Ret(call, action, error, obs, done, ticks) ==
    [call |-> call, action |-> action, error |-> error, obs |-> obs,
     done |-> done, ticks |-> ticks]

\* PlaygroundEnv.__init__(playground, agent, continuous_action_space, multisteps)
EnvConstruct(acts, ss, continuous, msteps) ==
    LET scan == ScanSensors(ss, 1, [sensors |-> ss, width |-> 0, height |-> 0, error |-> None])
        shape == <<scan.height, scan.width, Channels>>
    IN /\ actions = acts
       /\ continuous_action_space = continuous
       /\ actions_dict = BuildActionsDict(acts, continuous)
       /\ action_space = BuildActionSpace(acts, continuous)
       /\ sensors = scan.sensors
       /\ game = [elapsed_time |-> 0, done |-> FALSE, submitted |-> None]
       /\ IF scan.error = None
          THEN /\ observation_space = shape
               /\ observations = Zeros(shape)
               /\ multisteps = msteps
               /\ constructed = TRUE
          ELSE /\ observation_space = <<0, 0, Channels>>
               /\ observations = Zeros(<<0, 0, Channels>>)
               /\ multisteps = None
               /\ constructed = FALSE
       /\ ret = Ret("__init__", << >>, scan.error, None, FALSE, 0)

EnvNotConstructed ==
    /\ actions = << >>
    /\ sensors = << >>
    /\ continuous_action_space = TRUE
    /\ multisteps = None
    /\ actions_dict = << >>
    /\ action_space = [kind |-> "Box", low |-> << >>, high |-> << >>, nvec |-> << >>]
    /\ observation_space = <<0, 0, Channels>>
    /\ observations = Zeros(<<0, 0, Channels>>)
    /\ game = [elapsed_time |-> 0, done |-> FALSE, submitted |-> None]
    /\ constructed = FALSE
    /\ ret = Ret("none", << >>, None, None, FALSE, 0)

\* ---- step: the action conversion (lines 99-120) ----

EntryPadded(action, index_action) ==
    IF index_action < Len(action)
    THEN [ok |-> TRUE, value |-> action[index_action + 1]]
    ELSE [ok |-> TRUE, value |-> 0]

\* action[index_action]: an index past the end raises IndexError
Entry(action, index_action) ==
    IF index_action < Len(action)
    THEN [ok |-> TRUE, value |-> action[index_action + 1]]
    ELSE [ok |-> FALSE, value |-> 0]

\* lines 108-116: the command sent for one entry (x < 0.5 on integers is x <= 0)
ConvertedAction(x, action_type, continuous) ==
    IF continuous /\ action_type = "DISCRETE" THEN (IF 2 * x < 1 THEN 0 ELSE 1)
    ELSE IF ~continuous /\ action_type = "CONTINUOUS_CENTERED" THEN x - 1
    ELSE x

RECURSIVE Convert(_, _, _, _, _)
\* the loop of lines 102-118 from index_action on: the dictionary as the loop
\* leaves it, and the exception that ended it, if any
Convert(acts, continuous, action, index_action, acc) ==
    IF index_action >= Len(acts) THEN acc
    ELSE LET a == acts[index_action + 1]
             e == Entry(action, index_action)
         IN IF ~e.ok THEN [acc EXCEPT !.error = Some("IndexError")]
            ELSE IF a.body_part \notin DOMAIN acc.actions_dict
            THEN [acc EXCEPT !.error = Some("KeyError")]
            ELSE Convert(acts, continuous, action, index_action + 1,
                    [acc EXCEPT !.actions_dict =
                        SetItem(acc.actions_dict, a.body_part,
                            SetItem(acc.actions_dict[a.body_part], a.action,
                                ConvertedAction(e.value, a.action_type, continuous)))])

\* ---- step: the engine (lines 129-134) ----

\* self.multisteps is None: one tick; else n_steps = self.multisteps
Ticks(msteps) == IF msteps = None THEN 1 ELSE msteps[1]

\* Engine: Engine.step / Engine.multiple_steps apply the submitted actions and
\* advance the clock; reset tells that the playground is done, terminate that
\* the time limit is reached.
EngineStep(g, submitted, ticks, reset) ==
    [elapsed_time |-> g.elapsed_time + ticks, done |-> reset, submitted |-> Some(submitted)]

\* Engine: Engine.reset resets the playground.
EngineReset(g) == [g EXCEPT !.done = FALSE]

\* Engine: Engine.update_observations gives every sensor its new value.
UpdateObservations(ss, values) ==
    [i \in 1..Len(ss) |-> [ss[i] EXCEPT !.sensor_value = values[i]]]

\* ---- step: the tiling (lines 140-153) ----

\* The cells step() writes for one sensor, at the running height.
WriteRows(shape, current_height) ==
    IF shape.is_int \/ Len(shape.dims) = 2
    THEN {current_height}
    ELSE 0..(shape.dims[1] - 1)

WriteCols(shape) ==
    IF shape.is_int \/ Len(shape.dims) = 2
    THEN 0..(shape.dims[1] - 1)
    ELSE 0..(shape.dims[2] - 1)

\* The channels written: channel 0 for an int shape, all of them otherwise.
WriteChannels(shape) == IF shape.is_int THEN {1} ELSE 1..Channels

\* what the running height grows by (lines 145, 149, 153)
StepRows(shape) ==
    IF shape.is_int \/ Len(shape.dims) = 2 THEN 1 ELSE shape.dims[1]

\* numpy: an int row index past the tensor raises IndexError; a slice is cut to
\* the tensor, and a value that no longer fits the cut slice raises ValueError
WriteError(shape, current_height, space) ==
    IF (shape.is_int \/ Len(shape.dims) = 2) /\ current_height >= space[1]
    THEN Some("IndexError")
    ELSE IF \/ ~(WriteRows(shape, current_height) \subseteq 0..(space[1] - 1))
            \/ ~(WriteCols(shape) \subseteq 0..(space[2] - 1))
    THEN Some("ValueError")
    ELSE None

RECURSIVE Tile(_, _, _, _)
\* the loop of lines 141-153 from sensor i on
Tile(ss, space, i, acc) ==
    IF i > Len(ss) THEN acc
    ELSE LET sh == ss[i].shape
             err == WriteError(sh, acc.current_height, space)
             rows == WriteRows(sh, acc.current_height)
             cols == WriteCols(sh)
         IN IF err # None THEN [acc EXCEPT !.error = err]
            ELSE Tile(ss, space, i + 1,
                    [obs |-> [cell \in DOMAIN acc.obs |->
                                IF cell[1] \in rows /\ cell[2] \in cols
                                THEN [ch \in 1..Channels |->
                                        IF ch \in WriteChannels(sh)
                                        THEN ss[i].sensor_value
                                        ELSE acc.obs[cell][ch]]
                                ELSE acc.obs[cell]],
                     current_height |-> acc.current_height + StepRows(sh),
                     error |-> None])

\* Vectors a caller may pass to step(): up to one entry more than the actuators.
ActionVectors == SeqsUpTo(ActionValues, Len(actions) + 1)

\* PlaygroundEnv.step(action). reset and values are what the engine answers:
\* whether the playground is done, and the sensors' new readings.
EnvStep ==
    /\ constructed
    /\ game.elapsed_time + Ticks(multisteps) <= TimeLimit
    /\ \E values \in [1..Len(sensors) -> SensorValues] :
        LET ticks == Ticks(multisteps)
            terminate == game.elapsed_time + ticks >= TimeLimit
            ss == UpdateObservations(sensors, values)
        IN \E tile \in {Tile(ss, observation_space, 1,
                         [obs |-> observations, current_height |-> 0, error |-> None])} :
           \E action \in ActionVectors, reset \in BOOLEAN :
            LET conv == Convert(actions, continuous_action_space, action, 0,
                                [actions_dict |-> actions_dict, error |-> None])
            IN /\ actions_dict' = conv.actions_dict
               /\ IF conv.error # None
                  THEN /\ ret' = Ret("step", action, conv.error, None, FALSE, 0)
                       /\ UNCHANGED <<game, sensors, observations>>
                  ELSE /\ game' = EngineStep(game, conv.actions_dict, ticks, reset)
                       /\ sensors' = ss
                       /\ observations' = tile.obs
                       /\ ret' = IF tile.error # None
                                 THEN Ret("step", action, tile.error, None, FALSE, ticks)
                                 ELSE Ret("step", action, None, Some(tile.obs),
                                          reset \/ terminate, ticks)
    /\ UNCHANGED <<actions, continuous_action_space, multisteps, action_space,
                   observation_space, constructed, cue_vars, disp_vars>>

ResetReturnsBuffer(shape, buffer) == buffer

\* return numpy.zeros(self.observations.shape)
ResetObservation(shape, buffer) == Zeros(shape)

\* PlaygroundEnv.reset()
EnvReset ==
    /\ constructed
    /\ game' = [EngineReset(game) EXCEPT !.elapsed_time = 0]
    /\ ret' = Ret("reset", << >>, None,
                  Some(ResetObservation(observation_space, observations)), FALSE, 0)
    /\ UNCHANGED <<actions, sensors, continuous_action_space, multisteps, actions_dict,
                   action_space, observation_space, observations, constructed,
                   cue_vars, disp_vars>>

\* Adapters over agents with any actuators and no sensor, in both modes,
\* with and without a step-repeat count.
InitAct ==
    /\ CueNotConstructed
    /\ DispNotConstructed
    /\ \E acts \in DistinctSeqsUpTo(ActionDescriptors, MaxActions),
          continuous \in BOOLEAN, msteps \in {None, Some(2)} :
          EnvConstruct(acts, << >>, continuous, msteps)

\* Continuous adapters over agents with any sensors and one actuator.
InitObs ==
    /\ CueNotConstructed
    /\ DispNotConstructed
    /\ \E ss \in SeqsUpTo(SensorKinds, MaxSensors) :
          EnvConstruct(<<Action("base", "longitudinal_force", "CONTINUOUS_CENTERED", -1, 1)>>,
                       ss, TRUE, None)

NextEnv == EnvStep \/ EnvReset
SpecAct == InitAct /\ [][NextEnv]_vars
SpecObs == InitObs /\ [][NextEnv]_vars

InitCue == CueConstruct /\ DispNotConstructed /\ EnvNotConstructed
NextCue == CueSetGoal \/ CueReset
SpecCue == InitCue /\ [][NextCue]_vars

InitDisp == CueNotConstructed /\ DispConstruct /\ EnvNotConstructed
NextDisp == DispReset \/ DispAddAgent
SpecDisp == InitDisp /\ [][NextDisp]_vars

(***************************************************************************)
(* Properties                                                              *)
(***************************************************************************)

ZonesOf(cls) == {e \in scene_elements : e.cls = cls}

Cues == {e \in scene_elements : e.cls = "Basic" /\ e.pos = CueLocation}

GoalLocationSet == {goal_locations[i] : i \in 1..Len(goal_locations)}

\* C1: after construction and after every reset() of EndgoalRoomCue the scene
\* holds exactly one rewarding GoalZone and exactly three negative-reward
\* DeathZones, and their locations are exactly the four goal_locations.
C1_OneGoalThreeDecoysAfterReset ==
    cue_call \in {"__init__", "reset"} =>
        /\ Cardinality(ZonesOf("GoalZone")) = 1
        /\ \A e \in ZonesOf("GoalZone") : e.reward > 0
        /\ Cardinality(ZonesOf("DeathZone")) = 3
        /\ \A e \in ZonesOf("DeathZone") : e.reward < 0
        /\ {e.pos : e \in ZonesOf("GoalZone") \cup ZonesOf("DeathZone")} = GoalLocationSet

\* C1 witness: a third call in a row, a reset, has been made on the scene.
C1_Witness ==
    /\ cue_call = "reset"
    /\ next_id = Cardinality(Obstacles) + EntitiesPerCall * (MaxCalls + 1)
    /\ Cardinality(ZonesOf("DeathZone")) = 3

\* C2: after set_goal() is called again with no engine reset in between, the
\* scene holds exactly one rewarding zone, one cue and three decoy zones.
C2_SetGoalIdempotent ==
    cue_call = "set_goal" =>
        /\ Cardinality(ZonesOf("GoalZone")) = 1
        /\ Cardinality(Cues) = 1
        /\ Cardinality(ZonesOf("DeathZone")) = 3

\* Rows and columns the layout computed at construction gives sensor i.
LayoutOffset(ss, i) ==
    LET rows == [j \in 1..(i - 1) |-> InitRows(ss[j].shape)]
        sum[k \in 0..(i - 1)] == IF k = 0 THEN 0 ELSE sum[k - 1] + rows[k]
    IN sum[i - 1]

LayoutRows(ss, i) ==
    LayoutOffset(ss, i)..(LayoutOffset(ss, i) + InitRows(ss[i].shape) - 1)

LayoutCols(ss, i) == 0..(InitWidth(ss[i].shape) - 1)

\* C3: a step() that returns has written every sensor's output into the rows
\* the layout of construction gives it, inside the declared tensor, and no
\* sensor's output is overwritten by another's: after the step the region of
\* each sensor holds that sensor's value.
C3_StepTilesAsDeclared ==
    (ret.call = "step" /\ ret.error = None) =>
        /\ \A i \in 1..Len(sensors) :
            \A r \in LayoutRows(sensors, i), c \in LayoutCols(sensors, i) :
                /\ r < observation_space[1]
                /\ c < observation_space[2]
                /\ ret.obs[1][<<r, c>>][1] = sensors[i].sensor_value

\* C4: in continuous mode the action space has one dimension per actuator
\* descriptor, with the descriptor's min and max as its bounds, in order.
C4_ContinuousBounds ==
    (constructed /\ continuous_action_space) =>
        /\ action_space.kind = "Box"
        /\ Len(action_space.low) = Len(actions)
        /\ Len(action_space.high) = Len(actions)
        /\ \A i \in 1..Len(actions) :
            /\ action_space.low[i] = actions[i].min
            /\ action_space.high[i] = actions[i].max

\* C4 witness: a continuous adapter over two actuators with different ranges.
C4_Witness ==
    /\ constructed
    /\ continuous_action_space
    /\ Len(actions) = 2
    /\ actions[1].min # actions[2].min
    /\ actions[1].max # actions[2].max

\* C5 as stated: in discrete mode every dimension of a binary actuator and of
\* a zero-centered continuous actuator has cardinality 2.
C5_CenteredHasTwo ==
    (constructed /\ ~continuous_action_space) =>
        /\ action_space.kind = "MultiDiscrete"
        /\ Len(action_space.nvec) = Len(actions)
        /\ \A i \in 1..Len(actions) :
            /\ actions[i].action_type = "DISCRETE" => action_space.nvec[i] = 2
            /\ actions[i].action_type = "CONTINUOUS_CENTERED" => action_space.nvec[i] = 2

\* C5 amended: in discrete mode the space has one dimension per actuator
\* descriptor, in order, of cardinality 2 for a binary actuator, 3 for a
\* zero-centered continuous one and 2 for a non-centered continuous one.
C5_CenteredHasThree ==
    (constructed /\ ~continuous_action_space) =>
        /\ action_space.kind = "MultiDiscrete"
        /\ Len(action_space.nvec) = Len(actions)
        /\ \A i \in 1..Len(actions) :
            /\ actions[i].action_type = "DISCRETE" => action_space.nvec[i] = 2
            /\ actions[i].action_type = "CONTINUOUS_CENTERED" => action_space.nvec[i] = 3
            /\ actions[i].action_type = "CONTINUOUS_NOT_CENTERED" => action_space.nvec[i] = 2

\* C5 witness: a discrete adapter over a binary and a zero-centered actuator.
C5_Witness ==
    /\ constructed
    /\ ~continuous_action_space
    /\ Len(actions) = 2
    /\ actions[1].action_type = "DISCRETE"
    /\ actions[2].action_type = "CONTINUOUS_CENTERED"

\* The vector is a member of the declared discrete action space.
InDiscreteSpace(action) ==
    /\ Len(action) = Len(action_space.nvec)
    /\ \A i \in 1..Len(action) : action[i] \in 0..(action_space.nvec[i] - 1)

\* The commands of dictionary d are those of the first Len(actions) entries.
CommandsMatch(d, action, continuous) ==
    /\ \A i \in 1..Len(actions) :
        /\ actions[i].body_part \in DOMAIN d
        /\ actions[i].action \in DOMAIN d[actions[i].body_part]
        /\ d[actions[i].body_part][actions[i].action] =
            IF ~continuous /\ actions[i].action_type = "CONTINUOUS_CENTERED"
            THEN action[i] - 1
            ELSE IF continuous /\ actions[i].action_type = "DISCRETE"
            THEN (IF action[i] >= 1 THEN 1 ELSE 0)
            ELSE action[i]
    /\ \A bp \in DOMAIN d : \A act \in DOMAIN d[bp] :
        \E i \in 1..Len(actions) : actions[i].body_part = bp /\ actions[i].action = act

\* C6: in discrete mode step() with a vector of the declared space completes
\* without error and submits one command per actuator descriptor: the entry
\* minus one for a zero-centered continuous actuator, the entry otherwise.
C6_DiscreteStepSubmits ==
    (~continuous_action_space /\ ret.call = "step" /\ InDiscreteSpace(ret.action)) =>
        /\ ret.error = None
        /\ game.submitted # None
        /\ CommandsMatch(game.submitted[1], ret.action, FALSE)

\* C7 as stated: step() with a vector shorter or longer than the actuator
\* count raises and does not advance the engine.
C7_WrongLengthRejected ==
    (ret.call = "step" /\ Len(ret.action) # Len(actions)) =>
        /\ ret.error # None
        /\ ret.ticks = 0

\* C7 amended: step() with a vector shorter than the actuator count raises and
\* does not advance the engine; a longer vector is not rejected: in continuous
\* mode its first entries, one per actuator, are converted and submitted, the
\* rest is ignored and the engine is advanced.
C7_ShortRejectedLongAccepted ==
    ret.call = "step" =>
        /\ Len(ret.action) < Len(actions) =>
            /\ ret.error # None
            /\ ret.ticks = 0
        /\ (continuous_action_space /\ Len(ret.action) > Len(actions)) =>
            /\ ret.ticks = Ticks(multisteps)
            /\ game.submitted # None
            /\ CommandsMatch(game.submitted[1], ret.action, TRUE)

\* C7 witness: a continuous step with one entry too many ran the engine, the
\* actuators taking the values of the entries before it.
C7_Witness ==
    /\ ret.call = "step"
    /\ continuous_action_space
    /\ Len(actions) = 2
    /\ Len(ret.action) = 3
    /\ ret.action[3] # ret.action[2]
    /\ ret.ticks > 0

\* C8: construction raises the unsupported-sensor error exactly when some
\* sensor, at any position, is semantic; when it succeeds every sensor has
\* normalize set.
C8_SemanticRejected ==
    ret.call # "none" =>
        /\ ~constructed <=> (\E i \in 1..Len(sensors) : sensors[i].sensor_modality = "SEMANTIC")
        /\ ~constructed => ret.error = Some("ValueError")
        /\ constructed => \A i \in 1..Len(sensors) : sensors[i].normalize

\* C8 witness: construction failed on a semantic sensor that is not the first.
C8_Witness ==
    /\ ret.call = "__init__"
    /\ ~constructed
    /\ Len(sensors) = 2
    /\ sensors[1].sensor_modality # "SEMANTIC"
    /\ sensors[2].sensor_modality = "SEMANTIC"

\* C9: reset() resets the engine, leaves its elapsed time at 0 and returns a
\* tensor of the declared shape that is zero in every cell, whatever the
\* buffer holds.
C9_ResetReturnsZeros ==
    ret.call = "reset" =>
        /\ game.elapsed_time = 0
        /\ ~game.done
        /\ ret.error = None
        /\ ret.obs # None
        /\ DOMAIN ret.obs[1] =
            (0..(observation_space[1] - 1)) \X (0..(observation_space[2] - 1))
        /\ \A cell \in DOMAIN ret.obs[1] :
            /\ DOMAIN ret.obs[1][cell] = 1..Channels
            /\ \A ch \in 1..Channels : ret.obs[1][cell][ch] = 0

\* C9 witness: reset() returned while the buffer holds a sensor's nonzero value.
C9_Witness ==
    /\ ret.call = "reset"
    /\ \E cell \in DOMAIN observations : observations[cell][1] # 0

RoomCenters == {area_rooms[rc][1] : rc \in RoomCoordinates}

\* C10: after construction and after every reset() of DispenserEnv the start,
\* dispenser and production areas are centred on three different rooms of the
\* grid, and after a reset every agent starts in the area that reset chose.
C10_AreasDistinct ==
    disp_call # NoCall =>
        /\ {agent_starting_area[1].center, area_disp[1].center, area_prod[1].center}
            \subseteq RoomCenters
        /\ agent_starting_area[1].center # area_disp[1].center
        /\ agent_starting_area[1].center # area_prod[1].center
        /\ area_disp[1].center # area_prod[1].center
        /\ \A e \in disp_elements :
            e.area = area_disp[1] /\ e.production_area = area_prod[1]
        /\ disp_call = "reset" =>
            \A a \in DOMAIN agents : agents[a] = agent_starting_area[1]

\* C10 witness: a reset with agents in the playground.
C10_Witness ==
    /\ disp_call = "reset"
    /\ DOMAIN agents = AgentNames

====
